---- MODULE Spec2Model ----
(***************************************************************************)
(* A model of tensorflow/python/saved_model/builder_impl.py: the           *)
(* SavedModelBuilder, its two add entry points, save, and the asset        *)
(* registration helpers.  One action models one whole method call; the     *)
(* helpers are operators computed the way the code computes them.          *)
(***************************************************************************)
EXTENDS Integers, Sequences, FiniteSets, TLC

VARIABLES
    built,                  \* a SavedModelBuilder object exists (__init__ returned)
    saved_model,            \* self._saved_model
    has_saved_variables,    \* self._has_saved_variables
    graph,                  \* the collections of the current default graph
    fs,                     \* the export directory tree on disk
    persist_calls,          \* number of saver.save(sess, variables_path, ...) invocations
    ncalls,                 \* number of add calls made on the builder
    nassets,                \* number of asset tensors handed to the add calls
    lastOp,                 \* the method called last
    lastResult,             \* "ok" or the error the last call raised
    observed                \* what the specification keeps of the calls made

vars == <<built, saved_model, has_saved_variables, graph, fs, persist_calls,
          ncalls, nassets, lastOp, lastResult, observed>>

----------------------------------------------------------------------------
(* Bounds of the model. *)

\* add calls made on one builder
MaxCalls == 2
\* asset tensors handed to the add calls of one builder, all calls together
MaxAssets == 3
\* largest suffix among the keys of the filename maps tried on
\* _get_unique_asset_filename
MaxSuffix == 3

----------------------------------------------------------------------------
(* Values the callers hand in. *)

None == "None"

\* An optional argument that holds a structured value: <<>> when the caller
\* passes None, <<v>> when the caller passes v.
Absent == <<>>
Given(v) == <<v>>
IsNone(arg) == arg = <<>>
Val(arg) == arg[1]

\* constants.SAVED_MODEL_SCHEMA_VERSION
SAVED_MODEL_SCHEMA_VERSION == 1

\* Element types of types_pb2: the sentinel and one real type.
DT_INVALID == "DT_INVALID"
DT_FLOAT == "DT_FLOAT"

\* Source files of the caller: path (a sequence of components) and content.
\* /a/foo and /c/foo hold the same bytes, /b/foo holds other bytes.
PathA == <<"a", "foo">>
PathB == <<"b", "foo">>
PathC == <<"c", "foo">>
EmptyPath == <<>>

FileContent(path) ==
    CASE path = PathA -> "bytesX"
      [] path = PathB -> "bytesY"
      [] path = PathC -> "bytesX"
      [] OTHER -> "nofile"

\* The tensors a caller may put into assets_collection.  A record says what
\* _asset_path_from_tensor reads: whether it is a Tensor, its op type, its
\* dtype and the string_val list of its "value" attribute.
AssetTensors == {"t_a", "t_b", "t_c", "t_var", "t_empty"}

TensorDef(t) ==
    CASE t = "t_a"     -> [is_tensor |-> TRUE, op_type |-> "Const", dtype |-> "string", string_val |-> <<PathA>>]
      [] t = "t_b"     -> [is_tensor |-> TRUE, op_type |-> "Const", dtype |-> "string", string_val |-> <<PathB>>]
      [] t = "t_c"     -> [is_tensor |-> TRUE, op_type |-> "Const", dtype |-> "string", string_val |-> <<PathC>>]
      [] t = "t_var"   -> [is_tensor |-> TRUE, op_type |-> "VariableV2", dtype |-> "string", string_val |-> <<>>]
      [] t = "t_empty" -> [is_tensor |-> TRUE, op_type |-> "Const", dtype |-> "string", string_val |-> <<EmptyPath>>]

\* The tensors that resolve to a non-empty path.
ValidAssetTensors == {"t_a", "t_b", "t_c"}

\* Values for legacy_init_op and main_op: nothing, an ops.Operation, or
\* something that is not an Operation.
Operations == {"init_op", "main_op"}
NotAnOperation == "a_tensor"

\* TensorInfo protos.
InfoName      == [encoding |-> "name", dtype |-> DT_FLOAT]
InfoSparse    == [encoding |-> "coo_sparse", dtype |-> DT_FLOAT]
InfoNoEnc     == [encoding |-> None, dtype |-> DT_FLOAT]
InfoNoDtype   == [encoding |-> "name", dtype |-> DT_INVALID]

\* SignatureDef protos: inputs and outputs map a name to a TensorInfo.
SigGood     == [inputs |-> [x \in {"x"} |-> InfoName],   outputs |-> [y \in {"y"} |-> InfoSparse]]
SigBadIn    == [inputs |-> [x \in {"x"} |-> InfoNoEnc],  outputs |-> [y \in {"y"} |-> InfoName]]
SigBadOut   == [inputs |-> [x \in {"x"} |-> InfoName],   outputs |-> [y \in {"y"} |-> InfoNoDtype]]

\* signature_def_map arguments: None (Absent), or a map from a key to a SignatureDef.
MapGood     == [k \in {"predict"} |-> SigGood]
MapBadIn    == [k \in {"predict"} |-> SigBadIn]
MapBadOut   == [k \in {"predict", "train"} |-> IF k = "predict" THEN SigGood ELSE SigBadOut]
SignatureDefMaps == {Absent, Given(MapGood), Given(MapBadIn), Given(MapBadOut)}

TagLists == {<<"serve">>, <<"train", "serve", "train">>}

RECURSIVE SeqsUpTo(_, _)
SeqsUpTo(S, n) ==
    IF n = 0 THEN {<<>>}
    ELSE LET shorter == SeqsUpTo(S, n - 1)
         IN  shorter \cup {Append(s, x) : s \in shorter, x \in S}

----------------------------------------------------------------------------
(* State *)

EmptyMap == [n \in {} |-> None]

EmptyGraph == [assets |-> <<>>, legacy_init_op |-> <<>>, main_op |-> <<>>, train_op |-> <<>>]

EmptySavedModel ==
    [saved_model_schema_version |-> SAVED_MODEL_SCHEMA_VERSION, meta_graphs |-> <<>>]

\* The export directory before anything is written under it.
FreshDir(exists) ==
    [export_dir |-> exists, assets_dir |-> FALSE, assets |-> EmptyMap,
     variables_dir |-> FALSE, variables |-> "absent",
     pb |-> Absent, pbtxt |-> Absent]

(* The helpers below are pure: each takes the values it reads and returns  *)
(* the values it leaves, with "err" naming the exception it raised, if any. *)
(* A value computed once and read several times is passed on as a          *)
(* parameter of the operator that continues the computation.               *)
----------------------------------------------------------------------------
(* Asset registration: the module-level helpers. *)

\* os.path.basename
Basename(path) == IF path = <<>> THEN "" ELSE path[Len(path)]

\* file_io.filecmp
FileCmp(p, q) == FileContent(p) = FileContent(q)

\* The checks of _asset_path_from_tensor on the tensor's description d.
PathOfTensorDef(d) ==
    IF ~d.is_tensor THEN [err |-> "TypeError", path |-> EmptyPath]
    ELSE IF d.op_type # "Const" THEN [err |-> "TypeError", path |-> EmptyPath]
    ELSE IF d.dtype # "string" THEN [err |-> "TypeError", path |-> EmptyPath]
    ELSE IF Len(d.string_val) # 1 THEN [err |-> "TypeError", path |-> EmptyPath]
    ELSE [err |-> "ok", path |-> d.string_val[1]]

\* _asset_path_from_tensor: the path, or TypeError.
AssetPathFromTensor(t) == PathOfTensorDef(TensorDef(t))

\* The while loop of _get_unique_asset_filename.
RECURSIVE UniqueLoop(_, _, _, _)
UniqueLoop(asset_filename, asset_filename_map, i, unique_filename) ==
    IF unique_filename \in DOMAIN asset_filename_map
    THEN UniqueLoop(asset_filename, asset_filename_map, i + 1,
                    asset_filename \o "_" \o ToString(i))
    ELSE unique_filename

\* (a variant of GetUniqueAssetFilename that tries the first suffix only)
GetUniqueAssetFilename_FirstSuffix(asset_filename, asset_filename_map) ==
    IF asset_filename \in DOMAIN asset_filename_map
    THEN asset_filename \o "_" \o ToString(1)
    ELSE asset_filename

\* _get_unique_asset_filename
GetUniqueAssetFilename(asset_filename, asset_filename_map) ==
    UniqueLoop(asset_filename, asset_filename_map, 1, asset_filename)

\* _get_asset_filename_to_add, with asset_filename = os.path.basename(asset_filepath)
FilenameToAdd(asset_filename, asset_filepath, asset_filename_map) ==
    IF asset_filename \notin DOMAIN asset_filename_map THEN asset_filename
    ELSE IF asset_filename_map[asset_filename] = asset_filepath THEN asset_filename
    ELSE IF ~FileCmp(asset_filepath, asset_filename_map[asset_filename])
         THEN GetUniqueAssetFilename(asset_filename, asset_filename_map)
    ELSE asset_filename

\* _get_asset_filename_to_add
GetAssetFilenameToAdd(asset_filepath, asset_filename_map) ==
    FilenameToAdd(Basename(asset_filepath), asset_filepath, asset_filename_map)

\* _add_asset_to_collection: one AssetFileDef appended to the ASSETS_KEY
\* collection of the graph.
AddAssetToCollection(asset_filename, asset_tensor, g) ==
    [g EXCEPT !.assets = Append(@, [filename |-> asset_filename, tensor |-> asset_tensor])]

\* (a variant of MapPut that keeps the entry a key already has)
MapPut_KeepFirst(m, k, v) == [n \in DOMAIN m \cup {k} |-> IF n \in DOMAIN m THEN m[n] ELSE v]

\* asset_filename_map[asset_filename] = asset_source_filepath
MapPut(m, k, v) == [n \in DOMAIN m \cup {k} |-> IF n = k THEN v ELSE m[n]]

\* The for loop of _maybe_save_assets from position i on.  An invalid tensor
\* raises at once, and what earlier iterations added to the graph stays.
RECURSIVE AssetLoop(_, _, _, _)

\* One iteration, from the filename chosen for the tensor on.
AssetLoopRecord(assets, i, asset_filename_map, g, path, asset_filename) ==
    AssetLoop(assets, i + 1,
              MapPut(asset_filename_map, asset_filename, path),
              AddAssetToCollection(asset_filename, assets[i], g))

\* One iteration, from the result r of _asset_path_from_tensor on.
AssetLoopPath(assets, i, asset_filename_map, g, r) ==
    IF r.err # "ok"
    THEN [err |-> "TypeError", map |-> asset_filename_map, graph |-> g]
    ELSE IF r.path = EmptyPath
    THEN [err |-> "ValueError", map |-> asset_filename_map, graph |-> g]
    ELSE AssetLoopRecord(assets, i, asset_filename_map, g, r.path,
                         GetAssetFilenameToAdd(r.path, asset_filename_map))

AssetLoop(assets, i, asset_filename_map, g) ==
    IF i > Len(assets)
    THEN [err |-> "ok", map |-> asset_filename_map, graph |-> g]
    ELSE AssetLoopPath(assets, i, asset_filename_map, g, AssetPathFromTensor(assets[i]))

\* _maybe_save_assets: the map starts empty in every call.
MaybeSaveAssets(assets_collection_to_add, g) ==
    IF IsNone(assets_collection_to_add)
    THEN [err |-> "ok", map |-> EmptyMap, graph |-> g]
    ELSE AssetLoop(Val(assets_collection_to_add), 1, EmptyMap, g)

----------------------------------------------------------------------------
(* Methods of SavedModelBuilder. *)

\* (a variant of CopyAssets that copies over a file that is there)
CopyAssets_Overwrite(asset_filename_map, files) ==
    [n \in DOMAIN files \cup DOMAIN asset_filename_map |->
        IF n \in DOMAIN asset_filename_map THEN FileContent(asset_filename_map[n])
        ELSE files[n]]

\* The copy loop of _save_and_write_assets: a file is copied only if no file
\* of that name is in the assets directory.
CopyAssets(asset_filename_map, files) ==
    [n \in DOMAIN files \cup DOMAIN asset_filename_map |->
        IF n \in DOMAIN files THEN files[n]
        ELSE FileContent(asset_filename_map[n])]

\* _save_and_write_assets, from the result r of _maybe_save_assets on.
WriteAssets(r, disk) ==
    IF r.err # "ok" THEN [err |-> r.err, graph |-> r.graph, fs |-> disk]
    ELSE IF DOMAIN r.map = {} THEN [err |-> "ok", graph |-> r.graph, fs |-> disk]
    ELSE [err |-> "ok", graph |-> r.graph,
          fs |-> [disk EXCEPT !.assets_dir = TRUE,
                              !.assets = CopyAssets(r.map, @)]]

\* _save_and_write_assets
SaveAndWriteAssets(assets_collection_to_add, g, disk) ==
    WriteAssets(MaybeSaveAssets(assets_collection_to_add, g), disk)

\* isinstance(x, ops.Operation)
IsOperation(x) == x \in Operations

\* (a variant of MaybeAddLegacyInitOp without the test of the collection)
MaybeAddLegacyInitOp_NoDuplicateCheck(legacy_init_op, g) ==
    IF legacy_init_op = None THEN [err |-> "ok", graph |-> g]
    ELSE IF ~IsOperation(legacy_init_op) THEN [err |-> "TypeError", graph |-> g]
    ELSE [err |-> "ok", graph |-> [g EXCEPT !.legacy_init_op = Append(@, legacy_init_op)]]

\* _maybe_add_legacy_init_op
MaybeAddLegacyInitOp(legacy_init_op, g) ==
    IF legacy_init_op = None THEN [err |-> "ok", graph |-> g]
    ELSE IF ~IsOperation(legacy_init_op) THEN [err |-> "TypeError", graph |-> g]
    ELSE IF g.legacy_init_op # <<>> THEN [err |-> "AssertionError", graph |-> g]
    ELSE [err |-> "ok", graph |-> [g EXCEPT !.legacy_init_op = Append(@, legacy_init_op)]]

\* _add_main_op
AddMainOp(main_op, g) ==
    IF main_op = None THEN [err |-> "ok", graph |-> g]
    ELSE IF ~IsOperation(main_op) THEN [err |-> "TypeError", graph |-> g]
    ELSE [err |-> "ok", graph |-> [g EXCEPT !.main_op = Append(@, main_op)]]

\* _add_train_op: Tensors and Operations are both accepted.
AddTrainOp(train_op, g) ==
    IF train_op = None THEN [err |-> "ok", graph |-> g]
    ELSE IF ~(IsOperation(train_op) \/ train_op = NotAnOperation)
         THEN [err |-> "TypeError", graph |-> g]
    ELSE [err |-> "ok", graph |-> [g EXCEPT !.train_op = Append(@, train_op)]]

\* _add_collections, from the result o of the init or main op on: the train op.
\* "step" names the helper that raised.
CollectTrainOp(o, step, train_op, disk) ==
    IF o.err # "ok" THEN [err |-> o.err, step |-> step, graph |-> o.graph, fs |-> disk]
    ELSE [err |-> AddTrainOp(train_op, o.graph).err, step |-> "train_op",
          graph |-> AddTrainOp(train_op, o.graph).graph, fs |-> disk]

\* (a variant of CollectOps that runs the legacy init op path also when a
\* main op is given)
CollectOps_AlwaysLegacy(a, legacy_init_op, main_op, train_op) ==
    IF a.err # "ok" THEN [err |-> a.err, step |-> "assets", graph |-> a.graph, fs |-> a.fs]
    ELSE IF main_op = None \/ MaybeAddLegacyInitOp(legacy_init_op, a.graph).err # "ok"
    THEN CollectTrainOp(MaybeAddLegacyInitOp(legacy_init_op, a.graph),
                        "legacy_init_op", train_op, a.fs)
    ELSE CollectTrainOp(AddMainOp(main_op, MaybeAddLegacyInitOp(legacy_init_op, a.graph).graph),
                        "main_op", train_op, a.fs)

\* _add_collections, from the result a of _save_and_write_assets on: the
\* legacy init op if no main op is given, else the main op.
CollectOps(a, legacy_init_op, main_op, train_op) ==
    IF a.err # "ok" THEN [err |-> a.err, step |-> "assets", graph |-> a.graph, fs |-> a.fs]
    ELSE IF main_op = None
    THEN CollectTrainOp(MaybeAddLegacyInitOp(legacy_init_op, a.graph),
                        "legacy_init_op", train_op, a.fs)
    ELSE CollectTrainOp(AddMainOp(main_op, a.graph), "main_op", train_op, a.fs)

\* _add_collections: assets first, then the init or main op, then the train op.
AddCollections(assets_collection, legacy_init_op, main_op, train_op, g, disk) ==
    CollectOps(SaveAndWriteAssets(assets_collection, g, disk),
               legacy_init_op, main_op, train_op)

\* (a variant of ValidateTensorInfo that does not look at the dtype)
ValidateTensorInfo_NoDtype(tensor_info) ==
    tensor_info.encoding # None

\* _validate_tensor_info: TRUE when no AssertionError is raised.  (The value
\* of a proto map entry is never None, so the first test never fires.)
ValidateTensorInfo(tensor_info) ==
    /\ tensor_info.encoding # None
    /\ tensor_info.dtype # DT_INVALID

\* _validate_signature_def_map: TRUE when no AssertionError is raised.
ValidateSignatureDefMap(signature_def_map) ==
    \/ IsNone(signature_def_map)
    \/ \A key \in DOMAIN Val(signature_def_map) :
          /\ \A k \in DOMAIN Val(signature_def_map)[key].inputs :
                ValidateTensorInfo(Val(signature_def_map)[key].inputs[k])
          /\ \A k \in DOMAIN Val(signature_def_map)[key].outputs :
                ValidateTensorInfo(Val(signature_def_map)[key].outputs[k])

\* saver.export_meta_graph: a fresh MetaGraphDef of the current graph, its
\* collections included.
ExportMetaGraph(g) ==
    [tags |-> <<>>, signature_def |-> EmptyMap, collections |-> g]

\* meta_graph_def.signature_def[key].CopyFrom(signature_def_map[key]), for every key
CopySignatures(signature_def, given) ==
    [k \in DOMAIN signature_def \cup DOMAIN given |->
        IF k \in DOMAIN given THEN given[k] ELSE signature_def[k]]

\* (a variant of TagAndAddMetaGraph that appends the draft itself and not a
\* copy of it: a draft tagged again shows in the variants appended before)
TagAndAddMetaGraph_SharedDraft(sm, meta_graph_def, tags, signature_def_map) ==
    [sm EXCEPT !.meta_graphs =
        [v \in 1..Len(@) |-> [@[v] EXCEPT !.tags = @ \o tags]]
        \o <<[meta_graph_def EXCEPT
                !.tags = @ \o tags,
                !.signature_def = IF IsNone(signature_def_map) THEN @
                                  ELSE CopySignatures(@, Val(signature_def_map))]>>]

\* (a variant of TagAndAddMetaGraph that puts the new variant first)
TagAndAddMetaGraph_Prepend(sm, meta_graph_def, tags, signature_def_map) ==
    [sm EXCEPT !.meta_graphs = <<
        [meta_graph_def EXCEPT
            !.tags = @ \o tags,
            !.signature_def = IF IsNone(signature_def_map) THEN @
                              ELSE CopySignatures(@, Val(signature_def_map))]>> \o @]

\* _tag_and_add_meta_graph
TagAndAddMetaGraph(sm, meta_graph_def, tags, signature_def_map) ==
    [sm EXCEPT !.meta_graphs = Append(@,
        [meta_graph_def EXCEPT
            !.tags = @ \o tags,
            !.signature_def = IF IsNone(signature_def_map) THEN @
                              ELSE CopySignatures(@, Val(signature_def_map))])]

----------------------------------------------------------------------------
(* The two add methods as functions of the builder, the graph and the disk. *)

\* What a call leaves behind: its result ("ok" or the error raised), the
\* builder's fields, the graph, the disk, and the number of saver.save calls made.
Outcome(result, sm, flag, g, disk, persisted) ==
    [result |-> result, saved_model |-> sm, has_saved_variables |-> flag,
     graph |-> g, fs |-> disk, persisted |-> persisted]

\* The name this model gives to an exception, by the step that raised it.
ErrorName(step, err) ==
    CASE step = "assets" -> "InvalidAssetReference"
      [] step \in {"legacy_init_op", "main_op", "train_op"} /\ err = "TypeError"
            -> "InvalidOpReference"
      [] step = "legacy_init_op" /\ err = "AssertionError" -> "DuplicateLegacyInitOp"
      [] OTHER -> err

\* (a variant of RejectsSavedBuilder that never raises)
RejectsSavedBuilder_Never(flag) == FALSE

\* "if self._has_saved_variables: raise AssertionError" of add_meta_graph_and_variables
RejectsSavedBuilder(flag) == flag

\* (a variant of RejectsUnsavedBuilder that never raises)
RejectsUnsavedBuilder_Never(flag) == FALSE

\* "if not self._has_saved_variables: raise AssertionError" of add_meta_graph
RejectsUnsavedBuilder(flag) == ~flag

\* (a variant of MarkSaved that forgets the assignment)
MarkSaved_Forgotten(flag) == flag

\* "self._has_saved_variables = True", the last statement of add_meta_graph_and_variables
MarkSaved(flag) == TRUE

\* The variables directory is created if missing.
MakeVariablesDir(disk) == [disk EXCEPT !.variables_dir = TRUE]

\* saver.save(sess, variables_path, ...): the shards are written, or the
\* call raises and leaves what it had written.
SaverSave(disk, save_ok) ==
    [disk EXCEPT !.variables = IF save_ok THEN "written" ELSE "partial"]

\* add_meta_graph from the result c of _add_collections on: the export of the
\* meta graph, which may raise, and the append.
ExportAndAdd(sm, flag, c, tags, signature_def_map, export_ok) ==
    IF c.err # "ok"
    THEN Outcome(ErrorName(c.step, c.err), sm, flag, c.graph, c.fs, 0)
    ELSE IF ~export_ok
    THEN Outcome("ExportFailure", sm, flag, c.graph, c.fs, 0)
    ELSE Outcome("ok",
                 TagAndAddMetaGraph(sm, ExportMetaGraph(c.graph), tags, signature_def_map),
                 flag, c.graph, c.fs, 0)

\* add_meta_graph
AddMetaGraphCall(sm, flag, g, disk, tags, signature_def_map, assets_collection, legacy_init_op, main_op, export_ok) ==
    IF RejectsUnsavedBuilder(flag)
    THEN Outcome("VariablesNotSavedYet", sm, flag, g, disk, 0)
    ELSE IF ~ValidateSignatureDefMap(signature_def_map)
    THEN Outcome("MalformedTensorInfo", sm, flag, g, disk, 0)
    ELSE ExportAndAdd(sm, flag,
                      AddCollections(assets_collection, legacy_init_op, main_op, None, g, disk),
                      tags, signature_def_map, export_ok)

\* (a variant of SaveVariablesAndAdd that sets the flag before saver.save)
SaveVariablesAndAdd_MarkEarly(sm, flag, c, tags, signature_def_map, save_ok, export_ok) ==
    IF c.err # "ok"
    THEN Outcome(ErrorName(c.step, c.err), sm, flag, c.graph, c.fs, 0)
    ELSE IF ~save_ok
    THEN Outcome("PersistFailure", sm, TRUE, c.graph,
                 SaverSave(MakeVariablesDir(c.fs), FALSE), 1)
    ELSE IF ~export_ok
    THEN Outcome("ExportFailure", sm, TRUE, c.graph,
                 SaverSave(MakeVariablesDir(c.fs), TRUE), 1)
    ELSE Outcome("ok",
                 TagAndAddMetaGraph(sm, ExportMetaGraph(c.graph), tags, signature_def_map),
                 TRUE, c.graph,
                 SaverSave(MakeVariablesDir(c.fs), TRUE), 1)

\* add_meta_graph_and_variables from the result c of _add_collections on: the
\* variables directory, saver.save, the export, the append and the flag.
SaveVariablesAndAdd(sm, flag, c, tags, signature_def_map, save_ok, export_ok) ==
    IF c.err # "ok"
    THEN Outcome(ErrorName(c.step, c.err), sm, flag, c.graph, c.fs, 0)
    ELSE IF ~save_ok
    THEN Outcome("PersistFailure", sm, flag, c.graph,
                 SaverSave(MakeVariablesDir(c.fs), FALSE), 1)
    ELSE IF ~export_ok
    THEN Outcome("ExportFailure", sm, flag, c.graph,
                 SaverSave(MakeVariablesDir(c.fs), TRUE), 1)
    ELSE Outcome("ok",
                 TagAndAddMetaGraph(sm, ExportMetaGraph(c.graph), tags, signature_def_map),
                 MarkSaved(flag), c.graph,
                 SaverSave(MakeVariablesDir(c.fs), TRUE), 1)

\* add_meta_graph_and_variables (train_op is not among its arguments: it
\* passes None to _add_collections)
AddMetaGraphAndVariablesCall(sm, flag, g, disk, tags, signature_def_map, assets_collection, legacy_init_op, main_op, save_ok, export_ok) ==
    IF RejectsSavedBuilder(flag)
    THEN Outcome("AlreadySaved", sm, flag, g, disk, 0)
    ELSE IF ~ValidateSignatureDefMap(signature_def_map)
    THEN Outcome("MalformedTensorInfo", sm, flag, g, disk, 0)
    ELSE SaveVariablesAndAdd(sm, flag,
                             AddCollections(assets_collection, legacy_init_op, main_op, None, g, disk),
                             tags, signature_def_map, save_ok, export_ok)

\* A map field of a message as it is written: one entry per key.
MapEntries(m) == {[key |-> k, value |-> m[k]] : k \in DOMAIN m}

\* The fields of a MetaGraphDef as they are written: the tags inside
\* meta_info_def, the signature map and the collections.
MetaGraphFields(mg) ==
    [meta_info_def |-> [tags |-> mg.tags],
     signature_def |-> MapEntries(mg.signature_def),
     collection_def |-> mg.collections]

\* self._saved_model.SerializeToString(): the fields by number, in order; a
\* scalar that holds its default (0) is left out, a repeated field gives one
\* entry per element.
SerializeToString(sm) ==
    (IF sm.saved_model_schema_version = 0 THEN <<>>
     ELSE <<[number |-> 1, value |-> <<sm.saved_model_schema_version>>]>>)
    \o [i \in 1..Len(sm.meta_graphs) |->
           [number |-> 2, value |-> <<MetaGraphFields(sm.meta_graphs[i])>>]]

\* str(self._saved_model): the text format, the fields by name.
MessageToString(sm) ==
    (IF sm.saved_model_schema_version = 0 THEN <<>>
     ELSE <<[name |-> "saved_model_schema_version",
             value |-> <<sm.saved_model_schema_version>>]>>)
    \o [i \in 1..Len(sm.meta_graphs) |->
           [name |-> "meta_graphs", value |-> <<MetaGraphFields(sm.meta_graphs[i])>>]]

\* What save writes: the bytes of SerializeToString(), or the text of str().
Serialize(sm, as_text) ==
    IF as_text THEN MessageToString(sm) ELSE SerializeToString(sm)

\* (a variant of SaveCall that leaves a file that is there as it is)
SaveCall_KeepExisting(sm, disk, as_text) ==
    IF as_text
    THEN [disk EXCEPT !.export_dir = TRUE,
                      !.pbtxt = IF IsNone(@) THEN Given(Serialize(sm, TRUE)) ELSE @]
    ELSE [disk EXCEPT !.export_dir = TRUE,
                      !.pb = IF IsNone(@) THEN Given(Serialize(sm, FALSE)) ELSE @]

\* (a variant of SaveCall that writes both formats to one file)
SaveCall_OneFile(sm, disk, as_text) ==
    [disk EXCEPT !.export_dir = TRUE, !.pb = Given(Serialize(sm, as_text)),
                 !.pbtxt = IF as_text THEN Given(Serialize(sm, TRUE)) ELSE @]

\* save: the export directory is created if missing and the file is written.
SaveCall(sm, disk, as_text) ==
    IF as_text
    THEN [disk EXCEPT !.export_dir = TRUE, !.pbtxt = Given(Serialize(sm, TRUE))]
    ELSE [disk EXCEPT !.export_dir = TRUE, !.pb = Given(Serialize(sm, FALSE))]

----------------------------------------------------------------------------
(* What a specification keeps of the calls made: the arguments of the last  *)
(* call, the asset_filename_map that _maybe_save_assets returned in it, and *)
(* the tags and signature maps of the add calls that succeeded.  A          *)
(* specification names the fields it keeps; the others stay at their        *)
(* defaults.                                                                 *)

ObservedFields ==
    {"legacy_init_op", "main_op", "train_op", "format", "asset_filename_map", "accepted"}

NothingObserved ==
    [legacy_init_op |-> None, main_op |-> None, train_op |-> None, format |-> None,
     asset_filename_map |-> EmptyMap, accepted |-> <<>>]

Observe(view, field, value, default) == IF field \in view THEN value ELSE default

\* The asset_filename_map local to the add call that ended with result: empty
\* when the call raised before _add_collections.
MapOfCall(result, assets_collection, g) ==
    IF result \in {"AlreadySaved", "VariablesNotSavedYet", "MalformedTensorInfo", "TypeError"}
    THEN EmptyMap
    ELSE MaybeSaveAssets(assets_collection, g).map

\* The observation of an add call made in the current state.
ObserveAdd(view, tags, signature_def_map, assets_collection, legacy_init_op, main_op, train_op, result) ==
    [legacy_init_op |-> Observe(view, "legacy_init_op", legacy_init_op, None),
     main_op |-> Observe(view, "main_op", main_op, None),
     train_op |-> Observe(view, "train_op", train_op, None),
     format |-> None,
     asset_filename_map |->
         Observe(view, "asset_filename_map", MapOfCall(result, assets_collection, graph), EmptyMap),
     accepted |->
         Observe(view, "accepted",
                 IF result = "ok"
                 THEN Append(observed.accepted,
                             [tags |-> tags, signature_def_map |-> signature_def_map])
                 ELSE observed.accepted,
                 <<>>)]

\* The observation of a save call.
ObserveSave(view, as_text) ==
    [observed EXCEPT !.format = Observe(view, "format", IF as_text THEN "text" ELSE "binary", None)]

----------------------------------------------------------------------------
Init ==
    /\ built = FALSE
    /\ saved_model = EmptySavedModel
    /\ has_saved_variables = FALSE
    /\ graph = EmptyGraph
    /\ fs \in {FreshDir(e) : e \in BOOLEAN}
    /\ persist_calls = 0
    /\ ncalls = 0
    /\ nassets = 0
    /\ lastOp = None
    /\ lastResult = None
    /\ observed = NothingObserved

----------------------------------------------------------------------------
(* The steps.  Every call is one step; a call that raises leaves what it    *)
(* had written before the raise.                                            *)

AssetLists == {Absent} \cup {Given(l) : l \in SeqsUpTo(AssetTensors, MaxAssets)}
LegacyInitOps == {None, "init_op", NotAnOperation}
MainOps == {None, "main_op", NotAnOperation}

\* (a variant of FileExists that never finds the directory)
FileExists_Never(disk) == FALSE

\* file_io.file_exists(export_dir)
FileExists(disk) == disk.export_dir

\* __init__: refuses an existing export directory, else creates it.
Construct ==
    /\ ~built
    /\ lastOp' = "__init__"
    /\ IF FileExists(fs)
       THEN /\ lastResult' = "DirectoryAlreadyExists"
            /\ UNCHANGED <<built, fs>>
       ELSE /\ lastResult' = "ok"
            /\ built' = TRUE
            /\ fs' = [fs EXCEPT !.export_dir = TRUE]
    /\ saved_model' = EmptySavedModel
    /\ has_saved_variables' = FALSE
    /\ UNCHANGED <<graph, persist_calls, ncalls, nassets, observed>>

\* The caller makes a new graph the default one: "with tf.Session(graph=tf.Graph())".
NewGraph ==
    /\ built
    /\ graph # EmptyGraph
    /\ graph' = EmptyGraph
    /\ lastOp' = "tf.Graph"
    /\ lastResult' = "ok"
    /\ UNCHANGED <<built, saved_model, has_saved_variables, fs, persist_calls,
                   ncalls, nassets, observed>>

\* The number of tensors in an assets_collection argument.
NumAssets(assets_collection) ==
    IF IsNone(assets_collection) THEN 0 ELSE Len(Val(assets_collection))

\* The state after an add call that left o.
Returns(o) ==
    /\ lastResult' = o.result
    /\ saved_model' = o.saved_model
    /\ has_saved_variables' = o.has_saved_variables
    /\ graph' = o.graph
    /\ fs' = o.fs
    /\ persist_calls' = persist_calls + o.persisted

\* A call of builder.add_meta_graph
AddMetaGraph(tags, signature_def_map, assets_collection, legacy_init_op, main_op, export_ok) ==
    /\ built
    /\ ncalls < MaxCalls
    /\ ncalls' = ncalls + 1
    /\ nassets + NumAssets(assets_collection) <= MaxAssets
    /\ nassets' = nassets + NumAssets(assets_collection)
    /\ lastOp' = "add_meta_graph"
    /\ UNCHANGED built
    /\ Returns(AddMetaGraphCall(saved_model, has_saved_variables, graph, fs,
                                tags, signature_def_map, assets_collection,
                                legacy_init_op, main_op, export_ok))

\* A call of builder.add_meta_graph_and_variables
AddMetaGraphAndVariables(tags, signature_def_map, assets_collection, legacy_init_op, main_op, save_ok, export_ok) ==
    /\ built
    /\ ncalls < MaxCalls
    /\ ncalls' = ncalls + 1
    /\ nassets + NumAssets(assets_collection) <= MaxAssets
    /\ nassets' = nassets + NumAssets(assets_collection)
    /\ lastOp' = "add_meta_graph_and_variables"
    /\ UNCHANGED built
    /\ Returns(AddMetaGraphAndVariablesCall(saved_model, has_saved_variables, graph, fs,
                                            tags, signature_def_map, assets_collection,
                                            legacy_init_op, main_op, save_ok, export_ok))

\* A call of builder.save
Save(as_text) ==
    /\ built
    /\ lastOp' = "save"
    /\ lastResult' = "ok"
    /\ fs' = SaveCall(saved_model, fs, as_text)
    /\ UNCHANGED <<built, saved_model, has_saved_variables, graph, persist_calls,
                   ncalls, nassets>>

\* The values a caller may try to pass as train_op: an Operation or a Tensor.
TrainOps == {"train_op", NotAnOperation}

\* A call builder.add_meta_graph_and_variables(sess, tags, train_op=...): the
\* method has no parameter of that name, so Python raises TypeError when it
\* binds the arguments and the body does not run.
AddMetaGraphAndVariablesGivenTrainOp ==
    /\ built
    /\ ncalls < MaxCalls
    /\ ncalls' = ncalls + 1
    /\ lastOp' = "add_meta_graph_and_variables"
    /\ lastResult' = "TypeError"
    /\ UNCHANGED <<built, saved_model, has_saved_variables, graph, fs, persist_calls, nassets>>

\* The add and save calls with their arguments drawn from the given sets,
\* observed through view.
Calls(Tags, Sigs, Assets, Legacy, Main, Outcomes, AsText, view) ==
    \/ \E tags \in Tags, sigs \in Sigs, assets \in Assets,
          legacy \in Legacy, main \in Main, export_ok \in Outcomes :
            /\ AddMetaGraph(tags, sigs, assets, legacy, main, export_ok)
            /\ observed' = ObserveAdd(view, tags, sigs, assets, legacy, main, None, lastResult')
    \/ \E tags \in Tags, sigs \in Sigs, assets \in Assets,
          legacy \in Legacy, main \in Main,
          save_ok \in Outcomes, export_ok \in Outcomes :
            /\ AddMetaGraphAndVariables(tags, sigs, assets, legacy, main, save_ok, export_ok)
            /\ observed' = ObserveAdd(view, tags, sigs, assets, legacy, main, None, lastResult')
    \/ \E as_text \in AsText :
            /\ Save(as_text)
            /\ observed' = ObserveSave(view, as_text)

\* The calls that try to hand a train op to add_meta_graph_and_variables.
TrainOpCalls(Tags, Legacy, Main, view) ==
    \E tags \in Tags, legacy \in Legacy, main \in Main, train_op \in TrainOps :
        /\ AddMetaGraphAndVariablesGivenTrainOp
        /\ observed' = ObserveAdd(view, tags, Absent, Absent, legacy, main, train_op, lastResult')

\* Every kind of argument, with at most one asset per call, valid or not.
Next ==
    \/ Construct
    \/ NewGraph
    \/ Calls({<<"serve">>}, SignatureDefMaps, {Absent, Given(<<"t_a">>), Given(<<"t_var">>)},
             LegacyInitOps, MainOps, BOOLEAN, {FALSE}, {})

Spec == Init /\ [][Next]_vars

\* Tag lists, signature maps, an asset and both formats of save.
NextSave ==
    \/ Construct
    \/ NewGraph
    \/ Calls(TagLists, {Absent, Given(MapGood), Given(MapBadIn)}, {Absent, Given(<<"t_a">>)},
             {None}, {None}, {TRUE}, BOOLEAN, {"format", "accepted"})

SpecSave == Init /\ [][NextSave]_vars

\* Every asset list, the other arguments fixed.
NextAssets ==
    \/ Construct
    \/ NewGraph
    \/ Calls({<<"serve">>}, {Absent}, AssetLists, {None}, {None}, {TRUE}, {FALSE},
             {"asset_filename_map"})

SpecAssets == Init /\ [][NextAssets]_vars

\* The init, main and train ops, the other arguments fixed.
NextOps ==
    \/ Construct
    \/ NewGraph
    \/ Calls({<<"serve">>}, {Absent}, {Absent}, LegacyInitOps, MainOps, {TRUE}, {FALSE},
             {"legacy_init_op", "main_op", "train_op"})
    \/ TrainOpCalls({<<"serve">>}, LegacyInitOps, MainOps,
                    {"legacy_init_op", "main_op", "train_op"})

SpecOps == Init /\ [][NextOps]_vars

----------------------------------------------------------------------------
(* Properties.  A step is a call of method op when it counts a call and    *)
(* names op as the method called last.                                     *)

AddMethods == {"add_meta_graph", "add_meta_graph_and_variables"}

CallOf(op) == ncalls' = ncalls + 1 /\ lastOp' = op

AddCall == \E op \in AddMethods : CallOf(op)

\* The records a step appended to the graph's asset collection.
NewAssetRecords ==
    IF Len(graph'.assets) > Len(graph.assets) /\ SubSeq(graph'.assets, 1, Len(graph.assets)) = graph.assets
    THEN {graph'.assets[i] : i \in (Len(graph.assets) + 1)..Len(graph'.assets)}
    ELSE {}

\* The asset records of the variants appended so far.
VariantAssetRecords ==
    UNION {{saved_model.meta_graphs[v].collections.assets[i] :
               i \in 1..Len(saved_model.meta_graphs[v].collections.assets)} :
           v \in 1..Len(saved_model.meta_graphs)}

\* The source path a recorded asset tensor resolves to.
RecordPath(r) == AssetPathFromTensor(r.tensor).path

\* C1: once the variables have been saved, every call of
\* add_meta_graph_and_variables fails with AlreadySaved and leaves the variant
\* list, the variables store, the asset files, the graph and the flag as they were.
C1_SecondSaveRejected ==
    [][(has_saved_variables /\ CallOf("add_meta_graph_and_variables"))
         => (/\ lastResult' = "AlreadySaved"
             /\ UNCHANGED <<saved_model, has_saved_variables, graph, fs, persist_calls>>)]_vars

\* C1 witness: a rejected second add_meta_graph_and_variables, on a builder
\* that holds a variant, written variables and an asset file.
C1_Witness ==
    /\ lastOp = "add_meta_graph_and_variables"
    /\ lastResult = "AlreadySaved"
    /\ Len(saved_model.meta_graphs) = 1
    /\ fs.variables = "written"
    /\ DOMAIN fs.assets # {}

\* C2: while no add_meta_graph_and_variables has succeeded, every call of
\* add_meta_graph fails with VariablesNotSavedYet, whatever its arguments, and
\* leaves the variant list, the flag, the graph and the disk as they were.
C2_AddBeforeSaveRejected ==
    [][(~has_saved_variables /\ CallOf("add_meta_graph"))
         => (/\ lastResult' = "VariablesNotSavedYet"
             /\ UNCHANGED <<saved_model, has_saved_variables, graph, fs, persist_calls>>)]_vars

\* C2 witness: add_meta_graph rejected on a builder whose earlier
\* add_meta_graph_and_variables failed after it had copied an asset.
C2_Witness ==
    /\ lastOp = "add_meta_graph"
    /\ lastResult = "VariablesNotSavedYet"
    /\ ~has_saved_variables
    /\ DOMAIN fs.assets # {}

\* C3: the flag is false after construction; it never goes back to false; it
\* changes only in a successful add_meta_graph_and_variables, which sets it;
\* no add_meta_graph, save or failed call changes it.
C3_FlagSetOnce ==
    [][/\ (~built /\ built' => ~has_saved_variables')
       /\ (has_saved_variables => has_saved_variables')
       /\ (has_saved_variables' # has_saved_variables
             => CallOf("add_meta_graph_and_variables") /\ lastResult' = "ok")
       /\ (CallOf("add_meta_graph_and_variables") /\ lastResult' = "ok"
             => ~has_saved_variables /\ has_saved_variables')]_vars

\* C3 witness: the flag is still set after a later successful add_meta_graph.
C3_Witness ==
    /\ has_saved_variables
    /\ lastOp = "add_meta_graph"
    /\ lastResult = "ok"
    /\ Len(saved_model.meta_graphs) = 2

\* C4: saver.save is invoked at most once in the life of a builder.
C4_PersistAtMostOnce == persist_calls <= 1

\* C5: an add call rejected by op attachment leaves the bundle, the graph's
\* asset collection and the disk as they were.
C5_OpRejectionLeavesAll ==
    [][(AddCall /\ lastResult' \in {"InvalidOpReference", "DuplicateLegacyInitOp"})
         => (/\ UNCHANGED <<saved_model, has_saved_variables, fs>>
             /\ graph'.assets = graph.assets)]_vars

\* A signature_def_map argument with a TensorInfo, among the inputs or the
\* outputs of one of its SignatureDefs, that has no encoding or the invalid dtype.
HasMalformedTensorInfo(signature_def_map) ==
    /\ ~IsNone(signature_def_map)
    /\ \E key \in DOMAIN Val(signature_def_map) :
          \E io \in {Val(signature_def_map)[key].inputs, Val(signature_def_map)[key].outputs} :
              \E k \in DOMAIN io : io[k].encoding = None \/ io[k].dtype = DT_INVALID

\* C6: in every reachable state, the add method that is legal there, given a
\* signature map with a malformed TensorInfo, fails with MalformedTensorInfo
\* and leaves the variant list, the flag, the graph and the disk as they are and
\* calls saver.save not at all, whatever assets and ops it is given.
C6_MalformedRejectedUnchanged ==
    built =>
      \A sigs \in SignatureDefMaps, assets \in {Absent, Given(<<"t_a">>)},
         legacy \in LegacyInitOps, main \in MainOps, tags \in TagLists :
          HasMalformedTensorInfo(sigs) =>
            IF has_saved_variables
            THEN AddMetaGraphCall(saved_model, has_saved_variables, graph, fs,
                                  tags, sigs, assets, legacy, main, TRUE)
                   = Outcome("MalformedTensorInfo", saved_model, has_saved_variables,
                             graph, fs, 0)
            ELSE AddMetaGraphAndVariablesCall(saved_model, has_saved_variables, graph, fs,
                                  tags, sigs, assets, legacy, main, TRUE, TRUE)
                   = Outcome("MalformedTensorInfo", saved_model, has_saved_variables,
                             graph, fs, 0)

\* C6 witness: an add call has failed with MalformedTensorInfo in a state
\* where that method is legal.
C6_Witness ==
    /\ lastResult = "MalformedTensorInfo"
    /\ \/ lastOp = "add_meta_graph" /\ has_saved_variables
       \/ lastOp = "add_meta_graph_and_variables" /\ ~has_saved_variables
    /\ graph.assets # <<>>

\* C7: an add call rejected with InvalidAssetReference mutates nothing: no
\* asset is recorded in the graph, no file is copied, no variant is appended.
C7_InvalidAssetLeavesAll ==
    [][(AddCall /\ lastResult' = "InvalidAssetReference")
         => UNCHANGED <<saved_model, has_saved_variables, graph, fs>>]_vars

\* Two asset records of distinct source paths with one basename.
SameBasename(r, q) ==
    /\ RecordPath(r) # RecordPath(q)
    /\ Basename(RecordPath(r)) = Basename(RecordPath(q))

\* The assets directory (after the step) holds under the record's filename
\* the content of the record's source.
HoldsOwnContent(r) ==
    /\ r.filename \in DOMAIN fs'.assets
    /\ fs'.assets[r.filename] = FileContent(RecordPath(r))

\* C8: after a successful add call, an asset it recorded and an asset of
\* another path with the same basename and other content, recorded by the same
\* call or held by a variant appended earlier, have distinct filenames, and
\* the assets directory holds each under its filename with its own content.
C8_DistinctContentDistinctFiles ==
    [][(AddCall /\ lastResult' = "ok")
         => \A r \in NewAssetRecords : \A q \in NewAssetRecords \cup VariantAssetRecords :
              (SameBasename(r, q) /\ ~FileCmp(RecordPath(r), RecordPath(q)))
                => /\ r.filename # q.filename
                   /\ HoldsOwnContent(r)
                   /\ HoldsOwnContent(q)]_vars

\* C9: after a successful add call, an asset it recorded whose source path a
\* variant appended earlier also records has the filename recorded there, and
\* the assets directory holds that file with the content of the source.
C9_SamePathSameBasename ==
    [][(AddCall /\ lastResult' = "ok")
         => \A r \in NewAssetRecords : \A q \in VariantAssetRecords :
              RecordPath(r) = RecordPath(q)
                => /\ r.filename = q.filename
                   /\ HoldsOwnContent(r)]_vars

\* C10: after a successful add call, two assets it recorded whose paths differ,
\* with the same basename and the same content, have the same filename, and
\* the assets directory holds that content under one filename only.
C10_SameContentOneFile ==
    [][(AddCall /\ lastResult' = "ok")
         => \A r \in NewAssetRecords : \A q \in NewAssetRecords :
              (SameBasename(r, q) /\ FileCmp(RecordPath(r), RecordPath(q)))
                => /\ r.filename = q.filename
                   /\ Cardinality({n \in DOMAIN fs'.assets :
                          fs'.assets[n] = FileContent(RecordPath(r))}) = 1]_vars

\* The method of the step is the one the builder's state allows.
LegalAdd ==
    \/ CallOf("add_meta_graph_and_variables") /\ ~has_saved_variables
    \/ CallOf("add_meta_graph") /\ has_saved_variables

\* C11: an add call that is given a main op (an Operation) and a legacy init
\* op records the main op only: the main op is appended to the main-op
\* collection, and the legacy init op is neither type-checked, nor checked
\* against the ones recorded, nor recorded.
C11_MainOpOnly ==
    [][(/\ LegalAdd
        /\ observed'.train_op = None
        /\ observed'.main_op = "main_op"
        /\ observed'.legacy_init_op # None)
         => (/\ lastResult' = "ok"
             /\ graph'.main_op = Append(graph.main_op, "main_op")
             /\ graph'.legacy_init_op = graph.legacy_init_op
             /\ saved_model'.meta_graphs[Len(saved_model'.meta_graphs)].collections.main_op
                   = graph'.main_op)]_vars

\* C11 witness: a call given both ops has succeeded on a graph that already
\* held a legacy init op, where the duplicate check would have raised.
C11_Witness ==
    /\ lastResult = "ok"
    /\ observed.main_op = "main_op"
    /\ observed.legacy_init_op = "init_op"
    /\ graph.legacy_init_op = <<"init_op">>
    /\ graph.main_op = <<"main_op">>

\* The train-op collection of the variant appended last (after the step).
LastVariantTrainOps ==
    saved_model'.meta_graphs[Len(saved_model'.meta_graphs)].collections.train_op

\* C12: add_meta_graph_and_variables called in state Empty with a train op,
\* and with a main op that is an Operation or with neither init nor main op,
\* succeeds and the variant it appends carries that train op in its train-op
\* collection; add_meta_graph never adds to the train-op collection.
C12_TrainOpRecorded ==
    [][/\ (/\ CallOf("add_meta_graph_and_variables")
           /\ ~has_saved_variables
           /\ observed'.train_op # None
           /\ \/ observed'.main_op = "main_op"
              \/ observed'.main_op = None /\ observed'.legacy_init_op = None)
            => (/\ lastResult' = "ok"
                /\ Len(saved_model'.meta_graphs) = Len(saved_model.meta_graphs) + 1
                /\ \E i \in 1..Len(LastVariantTrainOps) :
                       LastVariantTrainOps[i] = observed'.train_op)
       /\ (CallOf("add_meta_graph") => graph'.train_op = graph.train_op)]_vars

\* C13: __init__ on an export directory that exists fails with
\* DirectoryAlreadyExists, builds nothing and leaves the disk as it was;
\* on one that does not exist it succeeds with no variant, the fixed schema
\* version and the flag false.
C13_ConstructChecksDirectory ==
    [][(~built /\ lastOp' = "__init__")
         => IF fs.export_dir
            THEN /\ lastResult' = "DirectoryAlreadyExists"
                 /\ ~built'
                 /\ fs' = fs
            ELSE /\ lastResult' = "ok"
                 /\ built'
                 /\ saved_model'.meta_graphs = <<>>
                 /\ saved_model'.saved_model_schema_version = SAVED_MODEL_SCHEMA_VERSION
                 /\ ~has_saved_variables']_vars

\* C13 witness: __init__ has refused an export directory that exists.
C13_Witness ==
    /\ lastOp = "__init__"
    /\ lastResult = "DirectoryAlreadyExists"
    /\ ~built
    /\ fs = FreshDir(TRUE)

----------------------------------------------------------------------------
(* Reading back what save wrote. *)

\* The map that a set of written entries decodes to.
MapOfEntries(entries) ==
    [k \in {e.key : e \in entries} |-> (CHOOSE e \in entries : e.key = k).value]

\* The MetaGraphDef that written fields decode to.
MetaGraphOfFields(f) ==
    [tags |-> f.meta_info_def.tags,
     signature_def |-> MapOfEntries(f.signature_def),
     collections |-> f.collection_def]

\* The message that decoded version entries vs and variant entries ms make up.
MessageOf(vs, ms) ==
    [saved_model_schema_version |-> IF Len(vs) = 0 THEN 0 ELSE vs[Len(vs)].value[1],
     meta_graphs |-> [i \in 1..Len(ms) |-> MetaGraphOfFields(ms[i].value[1])]]

\* Decoding the binary file: fields 1 and 2.
ParseFromString(bytes) ==
    MessageOf(SelectSeq(bytes, LAMBDA e : e.number = 1),
              SelectSeq(bytes, LAMBDA e : e.number = 2))

\* Decoding the text file: the fields by name.
ParseText(text) ==
    MessageOf(SelectSeq(text, LAMBDA e : e.name = "saved_model_schema_version"),
              SelectSeq(text, LAMBDA e : e.name = "meta_graphs"))

\* C14: save(as_text=False) followed at once by save(as_text=True) leaves two
\* files, saved_model.pb and saved_model.pbtxt; the second call does not
\* touch the first file, and both decode to the same schema version and the
\* same ordered variant list, those of the builder.
C14_BinaryThenTextSameContent ==
    [][(/\ lastOp = "save" /\ observed.format = "binary"
        /\ lastOp' = "save" /\ observed'.format = "text")
         => (/\ ~IsNone(fs'.pb)
             /\ ~IsNone(fs'.pbtxt)
             /\ fs'.pb = fs.pb
             /\ ParseText(Val(fs'.pbtxt)) = ParseFromString(Val(fs'.pb))
             /\ ParseText(Val(fs'.pbtxt)) = saved_model)]_vars

\* C14 witness: after a text save, both files are there and decode to the
\* builder's two variants, one of them with a repeated tag and a signature.
C14_Witness ==
    /\ lastOp = "save"
    /\ observed.format = "text"
    /\ ~IsNone(fs.pb)
    /\ ~IsNone(fs.pbtxt)
    /\ Len(saved_model.meta_graphs) = 2
    /\ ParseFromString(Val(fs.pb)) = saved_model
    /\ \E v \in 1..2 : /\ saved_model.meta_graphs[v].tags = <<"train", "serve", "train">>
                       /\ DOMAIN saved_model.meta_graphs[v].signature_def # {}

\* The file the last save wrote, decoded.
LastSaved ==
    IF observed.format = "text" THEN ParseText(Val(fs.pbtxt))
    ELSE ParseFromString(Val(fs.pb))

\* The signature map a signature_def_map argument stands for.
SignaturesGiven(signature_def_map) ==
    IF IsNone(signature_def_map) THEN EmptyMap ELSE Val(signature_def_map)

\* C15: after one successful add_meta_graph_and_variables and n successful
\* add_meta_graph calls, what save writes decodes to exactly n + 1 variants,
\* in call order, the i-th with the tags of the i-th call, in the order given
\* and duplicates kept, and with the signature map of the i-th call.
C15_SavedVariantsAreTheCalls ==
    (lastOp = "save" /\ observed.accepted # <<>>)
      => /\ Len(LastSaved.meta_graphs) = Len(observed.accepted)
         /\ \A i \in 1..Len(observed.accepted) :
               /\ LastSaved.meta_graphs[i].tags = observed.accepted[i].tags
               /\ LastSaved.meta_graphs[i].signature_def
                     = SignaturesGiven(observed.accepted[i].signature_def_map)

\* C15 witness: a save after two successful add calls whose tags and
\* signature maps differ.
C15_Witness ==
    /\ lastOp = "save"
    /\ Len(observed.accepted) = 2
    /\ observed.accepted[1].tags # observed.accepted[2].tags
    /\ observed.accepted[1].signature_def_map # observed.accepted[2].signature_def_map
    /\ Len(LastSaved.meta_graphs) = 2

\* The records a step appended to the graph's asset collection, in order.
NewAssetSeq ==
    IF Len(graph'.assets) > Len(graph.assets)
    THEN SubSeq(graph'.assets, Len(graph.assets) + 1, Len(graph'.assets))
    ELSE <<>>

\* The positions in NewAssetSeq of the records with filename n.
Writers(n) == {i \in 1..Len(NewAssetSeq) : NewAssetSeq[i].filename = n}

\* The source paths of the first and of the last asset registered as n.
FirstWriter(n) ==
    RecordPath(NewAssetSeq[CHOOSE i \in Writers(n) : \A j \in Writers(n) : i <= j])
LastWriter(n) ==
    RecordPath(NewAssetSeq[CHOOSE i \in Writers(n) : \A j \in Writers(n) : i >= j])

\* C16 as stated: in the asset_filename_map of a successful add call every
\* basename maps to the source path of the first asset registered under it.
C16_FirstWriterWins ==
    [][(AddCall /\ lastResult' = "ok")
         => \A n \in DOMAIN observed'.asset_filename_map :
               observed'.asset_filename_map[n] = FirstWriter(n)]_vars

\* C16 as amended: in the asset_filename_map of a successful add call every
\* basename maps to the source path of the last asset registered under it;
\* all assets registered under it hold the same content as that path, and a
\* file the call copies to the assets directory holds that content.
C16_LastWriterWins ==
    [][(AddCall /\ lastResult' = "ok")
         => \A n \in DOMAIN observed'.asset_filename_map :
               /\ observed'.asset_filename_map[n] = LastWriter(n)
               /\ \A i \in Writers(n) :
                     FileCmp(RecordPath(NewAssetSeq[i]), observed'.asset_filename_map[n])
               /\ n \notin DOMAIN fs.assets
                     => fs'.assets[n] = FileContent(observed'.asset_filename_map[n])]_vars

\* C16 witness: /a/foo then /c/foo, of the same content, were registered in
\* one call under foo, and the map holds /c/foo.
C16_Witness ==
    /\ lastResult = "ok"
    /\ "foo" \in DOMAIN observed.asset_filename_map
    /\ observed.asset_filename_map["foo"] = PathC
    /\ Len(graph.assets) >= 2
    /\ graph.assets[Len(graph.assets) - 1] = [filename |-> "foo", tensor |-> "t_a"]
    /\ graph.assets[Len(graph.assets)] = [filename |-> "foo", tensor |-> "t_c"]

\* C17: in a successful add call, two assets that resolve to the same source
\* path are recorded under the same filename, whatever else the list holds,
\* and the assets directory gets no further copy of that file.
C17_RepeatedPathOneName ==
    [][(AddCall /\ lastResult' = "ok")
         => \A r \in NewAssetRecords : \A q \in NewAssetRecords :
              RecordPath(r) = RecordPath(q)
                => /\ r.filename = q.filename
                   /\ Cardinality({n \in DOMAIN fs'.assets \ DOMAIN fs.assets :
                          fs'.assets[n] = FileContent(RecordPath(r))}) <= 1]_vars

\* C18: the legacy-init-op collection of the graph never holds more than one
\* op.  An add call with no main op and a legacy init op fails with
\* InvalidOpReference if the op is not an Operation, also when one is
\* recorded already; else it fails with DuplicateLegacyInitOp if one is
\* recorded already; in both cases the collection stays as it was; else the
\* op is recorded.
C18_OneLegacyInitOp ==
    [][/\ Len(graph'.legacy_init_op) <= 1
       /\ (/\ LegalAdd
           /\ observed'.train_op = None
           /\ observed'.main_op = None
           /\ observed'.legacy_init_op # None)
            => IF ~IsOperation(observed'.legacy_init_op)
               THEN /\ lastResult' = "InvalidOpReference"
                    /\ graph'.legacy_init_op = graph.legacy_init_op
               ELSE IF graph.legacy_init_op # <<>>
               THEN /\ lastResult' = "DuplicateLegacyInitOp"
                    /\ graph'.legacy_init_op = graph.legacy_init_op
               ELSE /\ lastResult' = "ok"
                    /\ graph'.legacy_init_op = <<observed'.legacy_init_op>>]_vars

\* C18 witness: a second legacy init op has been refused.
C18_Witness ==
    /\ lastResult = "DuplicateLegacyInitOp"
    /\ observed.legacy_init_op = "init_op"
    /\ observed.main_op = None
    /\ graph.legacy_init_op = <<"init_op">>

\* C19: no appended variant carries both a legacy init op and a main op, and
\* none carries more than one main op, also when several add calls are made
\* against one graph.
C19_InitAndMainExclusive ==
    \A v \in 1..Len(saved_model.meta_graphs) :
        /\ ~(/\ saved_model.meta_graphs[v].collections.legacy_init_op # <<>>
             /\ saved_model.meta_graphs[v].collections.main_op # <<>>)
        /\ Len(saved_model.meta_graphs[v].collections.main_op) <= 1

\* asset_filename with the suffix _k
Suffixed(asset_filename, k) == asset_filename \o "_" \o ToString(k)

\* Filename maps to try: every set of keys among foo_1 .. foo_MaxSuffix and
\* bar, together with foo, and the map of the last add call.
ProbeMaps ==
    {[n \in keys \cup {"foo"} |-> PathA] :
        keys \in SUBSET ({"bar"} \cup {Suffixed("foo", k) : k \in 1..MaxSuffix})}
    \cup {observed.asset_filename_map}

\* The least k >= 1 for which asset_filename_k is not a key of m.
LeastFreeSuffix(asset_filename, m) ==
    CHOOSE k \in 1..(Cardinality(DOMAIN m) + 1) :
        /\ Suffixed(asset_filename, k) \notin DOMAIN m
        /\ \A j \in 1..(k - 1) : Suffixed(asset_filename, j) \in DOMAIN m

\* C20: for every filename map that has the plain basename as a key,
\* _get_unique_asset_filename returns basename_k for the least k >= 1 such
\* that basename_k is not a key, and what it returns is not a key of the map.
C20_UniqueFilenameIsLeastFree ==
    \A m \in ProbeMaps :
        "foo" \in DOMAIN m
          => /\ GetUniqueAssetFilename("foo", m) = Suffixed("foo", LeastFreeSuffix("foo", m))
             /\ GetUniqueAssetFilename("foo", m) \notin DOMAIN m

\* C20 witness: an add call has registered assets under foo, foo_1 and foo_2,
\* the last two by _get_unique_asset_filename.
C20_Witness ==
    /\ lastResult = "ok"
    /\ DOMAIN observed.asset_filename_map = {"foo", "foo_1", "foo_2"}
    /\ \E i \in 1..Len(graph.assets) : graph.assets[i].filename = "foo_2"

\* C21: no step changes or removes a file of the assets directory; a file
\* that appears there holds the content of the path the call's map gives for
\* its name; the directory is created only by an add call that registered an
\* asset; an add call given no asset tensor (None or an empty list) leaves
\* the directory and its files as they were.
C21_AssetsNeverOverwritten ==
    [][/\ \A n \in DOMAIN fs.assets :
             n \in DOMAIN fs'.assets /\ fs'.assets[n] = fs.assets[n]
       /\ \A n \in DOMAIN fs'.assets \ DOMAIN fs.assets :
             /\ AddCall
             /\ n \in DOMAIN observed'.asset_filename_map
             /\ fs'.assets[n] = FileContent(observed'.asset_filename_map[n])
       /\ (fs.assets_dir => fs'.assets_dir)
       /\ (fs'.assets_dir /\ ~fs.assets_dir)
             => (AddCall /\ DOMAIN observed'.asset_filename_map # {})
       /\ (AddCall /\ nassets' = nassets)
             => (fs'.assets_dir = fs.assets_dir /\ fs'.assets = fs.assets)]_vars

\* C21 witness: a second add call registered /b/foo as foo while the assets
\* directory held foo with the content of /a/foo, and the file is as it was.
C21_Witness ==
    /\ lastResult = "ok"
    /\ ncalls = 2
    /\ observed.asset_filename_map = [n \in {"foo"} |-> PathB]
    /\ "foo" \in DOMAIN fs.assets
    /\ fs.assets["foo"] = FileContent(PathA)

\* The file a save step has just written, decoded.
WrittenFile ==
    IF observed'.format = "text" THEN ParseText(Val(fs'.pbtxt))
    ELSE ParseFromString(Val(fs'.pb))

\* C22: save succeeds in every state of the builder; it changes only the
\* file of its format and, if missing, the export directory: the variant
\* list, the flag, the graph, the variables, the asset files and the file of
\* the other format stay as they were; the file written decodes to the
\* SavedModel the builder holds at that call.
C22_SaveWritesCurrentState ==
    [][(lastOp' = "save")
         => (/\ built
             /\ lastResult' = "ok"
             /\ UNCHANGED <<saved_model, has_saved_variables, graph, persist_calls>>
             /\ fs'.export_dir
             /\ fs'.assets_dir = fs.assets_dir
             /\ fs'.assets = fs.assets
             /\ fs'.variables_dir = fs.variables_dir
             /\ fs'.variables = fs.variables
             /\ IF observed'.format = "text" THEN fs'.pb = fs.pb ELSE fs'.pbtxt = fs.pbtxt
             /\ WrittenFile = saved_model)]_vars

\* C22 witness: a binary save after the second add, on a builder with
\* written variables and an asset file; the text file, written between the
\* two adds, still holds the one variant of that time.
C22_Witness ==
    /\ lastOp = "save"
    /\ observed.format = "binary"
    /\ Len(saved_model.meta_graphs) = 2
    /\ ParseFromString(Val(fs.pb)) = saved_model
    /\ ~IsNone(fs.pbtxt)
    /\ Len(ParseText(Val(fs.pbtxt)).meta_graphs) = 1
    /\ fs.variables = "written"
    /\ DOMAIN fs.assets = {"foo"}

\* The variants before the step are the first variants after it, unchanged.
VariantsKept ==
    /\ Len(saved_model.meta_graphs) <= Len(saved_model'.meta_graphs)
    /\ \A v \in 1..Len(saved_model.meta_graphs) :
          saved_model'.meta_graphs[v] = saved_model.meta_graphs[v]

\* C23: the variant list is append-only: every step keeps the variants it
\* finds, with their tags, signature maps and graph documents, as the first
\* variants of the list; a successful add call appends exactly one variant;
\* a failed add call, save, __init__ and a change of graph append none.
C23_VariantsAppendOnly ==
    [][/\ VariantsKept
       /\ Len(saved_model'.meta_graphs) =
             IF AddCall /\ lastResult' = "ok"
             THEN Len(saved_model.meta_graphs) + 1
             ELSE Len(saved_model.meta_graphs)]_vars

\* C23 witness: a second variant was appended from the graph of the first,
\* which the second call had changed, and the first variant holds the graph
\* document it was appended with.
C23_Witness ==
    /\ lastResult = "ok"
    /\ Len(saved_model.meta_graphs) = 2
    /\ saved_model.meta_graphs[2].collections = graph
    /\ Len(saved_model.meta_graphs[1].collections.assets) = 1
    /\ Len(graph.assets) = 2
    /\ graph.assets[1] = saved_model.meta_graphs[1].collections.assets[1]

\* C24: after every step the variant list is non-empty exactly when the flag
\* is set.  add_meta_graph_and_variables on a builder without saved
\* variables is not refused as AlreadySaved; if it fails, at whatever step,
\* the flag stays unset and the list empty; if it succeeds, its variant is
\* the first of the list.  add_meta_graph on a builder without saved
\* variables is refused and the list stays empty.
C24_VariantsIffSaved ==
    [][/\ (saved_model'.meta_graphs # <<>>) <=> has_saved_variables'
       /\ (CallOf("add_meta_graph_and_variables") /\ ~has_saved_variables)
            => /\ lastResult' # "AlreadySaved"
               /\ saved_model.meta_graphs = <<>>
               /\ IF lastResult' = "ok"
                  THEN Len(saved_model'.meta_graphs) = 1 /\ has_saved_variables'
                  ELSE saved_model'.meta_graphs = <<>> /\ ~has_saved_variables'
       /\ (CallOf("add_meta_graph") /\ ~has_saved_variables)
            => /\ lastResult' = "VariablesNotSavedYet"
               /\ saved_model'.meta_graphs = <<>>]_vars

\* C24 witness: add_meta_graph_and_variables has succeeded on a builder on
\* which an earlier call of it had failed after saver.save.
C24_Witness ==
    /\ lastOp = "add_meta_graph_and_variables"
    /\ lastResult = "ok"
    /\ persist_calls = 2
    /\ has_saved_variables
    /\ Len(saved_model.meta_graphs) = 1

====
